---- MODULE Spec2Model ----
(***************************************************************************)
(* Model of class float_IEEE754 (src/src/class/float_IEEE754.py): a float  *)
(* subclass that keeps, beside the Python float value, the bit pattern of  *)
(* that value packed into 16, 32 or 64 bits, the three bit fields and the  *)
(* IEEE 754 category flags derived from them.                              *)
(*                                                                         *)
(* A bit sequence (bitarray) is a sequence of 0/1, index 1 being the       *)
(* bitarray's index 0 (the sign bit).  A Python float is modelled by the   *)
(* bit pattern, in the format of its object's width, of the value it       *)
(* holds: [w |-> width, bits |-> pattern].  Every float of the model comes *)
(* from unpacking a pattern of that width (or from abs of such a value),   *)
(* so packing it back into the same width is exact but for NaNs, whose     *)
(* treatment by struct depends on the interpreter build (nanmode).         *)
(***************************************************************************)
EXTENDS Integers, Sequences, FiniteSets, TLC

VARIABLES
    byteorder,  \* sys.byteorder of the process: "little" or "big"
    nanmode,    \* what struct does to NaNs narrower than 64 bits: "quiet" or "keep"
    objs,       \* the float_IEEE754 instances alive, in order of creation
    origin,     \* history: the call that created each instance
    ret         \* the last call and what it returned or raised

vars == <<byteorder, nanmode, objs, origin, ret>>

(***************************************************************************)
(* Bounds of the model.                                                    *)
(***************************************************************************)
\* instances alive at once
MaxObjs == 3
\* instances created from outside data (bytes, numbers) rather than derived
MaxRoots == 1

(***************************************************************************)
(* Class constants.                                                        *)
(***************************************************************************)
SIGN_PLUS == ""
SIGN_MINUS == "-"

\* the keys of __desc
Widths == {16, 32, 64}

\* __desc[nbits]['e']
desc_e(nbits) == CASE nbits = 16 -> 5 [] nbits = 32 -> 8 [] nbits = 64 -> 11

\* the keys of __bytesOrders
ByteOrders == {"native-align", "native", "little-endian", "big-endian", "network"}

\* __bytesOrders[byteOrder]['p'], by the byte order the struct prefix selects
bytesOrders_p(byteOrder) ==
    CASE byteOrder \in {"native-align", "native"} -> byteorder
      [] byteOrder = "little-endian" -> "little"
      [] byteOrder \in {"big-endian", "network"} -> "big"

\* the default of every byteOrder parameter: sys.byteorder + '-endian'
DefaultByteOrder == IF byteorder = "little" THEN "little-endian" ELSE "big-endian"

(***************************************************************************)
(* bitarray                                                                *)
(***************************************************************************)
\* F(v), with v evaluated once
Bind(v, F(_)) == CHOOSE r \in {F(x) : x \in {v}} : TRUE

Zeros(n) == [i \in 1..n |-> 0]
Ones(n) == [i \in 1..n |-> 1]

\* bitarray.any(), bitarray.all()
any(b) == \E i \in 1..Len(b) : b[i] = 1
all(b) == \A i \in 1..Len(b) : b[i] = 1

\* bitarray.util.ba2int: the big-endian unsigned integer
ba2int(b) ==
    LET int[k \in 0..Len(b)] == IF k = 0 THEN 0 ELSE 2 * int[k - 1] + b[k]
    IN  int[Len(b)]

\* bitarray.tobytes() of a pattern whose length is a multiple of 8
tobytes(b) == [k \in 1..(Len(b) \div 8) |-> SubSeq(b, 8 * (k - 1) + 1, 8 * k)]

\* bitarray.frombytes(): the bits of the bytes, in order
frombytes(bs) == [i \in 1..(8 * Len(bs)) |-> bs[((i - 1) \div 8) + 1][((i - 1) % 8) + 1]]

Reverse(s) == [i \in 1..Len(s) |-> s[Len(s) + 1 - i]]

(***************************************************************************)
(* Python floats and struct                                                *)
(***************************************************************************)
fexp(v) == SubSeq(v.bits, 2, desc_e(v.w) + 1)
fman(v) == SubSeq(v.bits, desc_e(v.w) + 2, v.w)
fneg(v) == v.bits[1] = 1
fbias(v) == 2 ^ (desc_e(v.w) - 1) - 1

\* math.isnan, math.isinf, v == 0
fisnan(v) == all(fexp(v)) /\ any(fman(v))
fisinf(v) == all(fexp(v)) /\ ~any(fman(v))
fiszero(v) == ~any(fexp(v)) /\ ~any(fman(v))

\* what struct does to the fraction bits m of a NaN of width w: a build that
\* converts through C float/double quiets a binary32 NaN and unpacks and packs
\* every binary16 NaN as the standard quiet NaN; binary64 is copied as is
NanFraction(w, m) ==
    IF nanmode = "keep" \/ w = 64 THEN m
    ELSE IF w = 32 THEN [m EXCEPT ![1] = 1]
    ELSE <<1>> \o Zeros(Len(m) - 1)

StructNan(w, bits) ==
    LET e == desc_e(w)
        v == [w |-> w, bits |-> bits]
    IN  IF fisnan(v)
        THEN SubSeq(bits, 1, e + 1) \o NanFraction(w, SubSeq(bits, e + 2, w))
        ELSE bits

\* struct.unpack(bop + __desc[nbits]['unpack'], value)[0], value being the
\* nbits/8 bytes and order the byte order bop selects
unpack(order, nbits, value) ==
    LET bs == IF order = "little" THEN Reverse(value) ELSE value
    IN  [w |-> nbits, bits |-> StructNan(nbits, frombytes(bs))]

\* struct.pack('!' + fmt['unpack'], value): the big-endian bytes
pack(nbits, value) == tobytes(StructNan(nbits, value.bits))

\* abs(value) of a float: the sign bit cleared
pyabs(v) == [v EXCEPT !.bits[1] = 0]

\* position of the first 1 of a bit sequence that has one
FirstOne(b) == CHOOSE i \in 1..Len(b) : b[i] = 1 /\ \A j \in 1..(i - 1) : b[j] = 0

\* a finite nonzero float is 1.f * 2^q: q, and f as a bit sequence
fq(v) == IF any(fexp(v)) THEN ba2int(fexp(v)) - fbias(v)
         ELSE 1 - fbias(v) - FirstOne(fman(v))
ffrac(v) == IF any(fexp(v)) THEN fman(v)
            ELSE SubSeq(fman(v), FirstOne(fman(v)) + 1, Len(fman(v)))

bitAt(b, i) == IF i <= Len(b) THEN b[i] ELSE 0

\* a < b for fractions read as 0.b1b2..., of any lengths
FracLt(a, b) ==
    LET n == IF Len(a) > Len(b) THEN Len(a) ELSE Len(b)
    IN  \E i \in 1..n : /\ bitAt(a, i) < bitAt(b, i)
                        /\ \A j \in 1..(i - 1) : bitAt(a, j) = bitAt(b, j)

\* |a| < |b| for floats that are not NaN
MagLt(a, b) ==
    IF fisinf(a) \/ fiszero(b) THEN FALSE
    ELSE IF fisinf(b) \/ fiszero(a) THEN TRUE
    ELSE fq(a) < fq(b) \/ (fq(a) = fq(b) /\ FracLt(ffrac(a), ffrac(b)))

\* float.__lt__, __gt__, __eq__
FloatLt(a, b) ==
    /\ ~fisnan(a)
    /\ ~fisnan(b)
    /\ IF fiszero(a) /\ fiszero(b) THEN FALSE
       ELSE IF fneg(a) /\ ~fneg(b) THEN TRUE
       ELSE IF ~fneg(a) /\ fneg(b) THEN FALSE
       ELSE IF fneg(a) THEN MagLt(b, a)
       ELSE MagLt(a, b)
FloatGt(a, b) == FloatLt(b, a)
FloatEq(a, b) == ~fisnan(a) /\ ~fisnan(b) /\ ~FloatLt(a, b) /\ ~FloatLt(b, a)

(***************************************************************************)
(* float_IEEE754.__new__ and __init__                                      *)
(***************************************************************************)
\* __new__(self, value, nbits, forcePositive): the float value of the instance
new(value, nbits, forcePositive) == IF forcePositive THEN pyabs(value) ELSE value

\* the normal flag of __init__
normalFlag(rawExp, rawMantissa) == any(rawExp) \/ ~any(rawMantissa)

\* nanFlag without the test of the mantissa
nanFlagLoose(rawExp, rawMantissa) == all(rawExp)

\* the NaN flag of __init__
nanFlag(rawExp, rawMantissa) == all(rawExp) /\ any(rawMantissa)

\* the loop over bmantissa: the list of -k for the set positions k (1-indexed)
mantissaExprList(bmantissa) ==
    LET list[k \in 0..Len(bmantissa)] ==
            IF k = 0 THEN << >>
            ELSE IF bmantissa[k] = 1 THEN Append(list[k - 1], -k) ELSE list[k - 1]
    IN  list[Len(bmantissa)]

\* the attributes __init__ derives from the three bit fields
initFields(float, nbits, base, bitarray, rawExp, rawMantissa, expBias, sign, normal) ==
    LET subnormal == ~any(rawExp) /\ any(rawMantissa)
        zero == ~any(rawMantissa) /\ ~any(rawExp)
        infinity == all(rawExp) /\ ~any(rawMantissa)
        NaN == nanFlag(rawExp, rawMantissa)
        signalingNaN == NaN /\ rawMantissa[1] = 0
        quietNaN == NaN /\ rawMantissa[1] = 1
        intRawExp == ba2int(rawExp)
    IN  [ float |-> float,
          nbits |-> nbits,
          base |-> base,
          p |-> 53,
          bitarray |-> bitarray,
          rawSign |-> bitarray[1],
          rawExp |-> rawExp,
          rawMantissa |-> rawMantissa,
          isExp0 |-> ~any(rawExp),
          expBias |-> expBias,
          sign |-> sign,
          normal |-> normal,
          negativeNormal |-> normal /\ sign = SIGN_MINUS,
          positiveNormal |-> normal /\ sign = SIGN_PLUS,
          subnormal |-> subnormal,
          negativeSubnormal |-> subnormal /\ sign = SIGN_MINUS,
          positiveSubnormal |-> subnormal /\ sign = SIGN_PLUS,
          zero |-> zero,
          positiveZero |-> zero /\ sign = SIGN_PLUS,
          negativeZero |-> zero /\ sign = SIGN_MINUS,
          infinity |-> infinity,
          negativeInfinity |-> infinity /\ sign = SIGN_MINUS,
          positiveInfinity |-> infinity /\ sign = SIGN_PLUS,
          NaN |-> NaN,
          signalingNaN |-> signalingNaN,
          quietNaN |-> quietNaN,
          finite |-> zero \/ (~infinity /\ ~NaN),
          canonical |-> ~NaN \/ signalingNaN \/ ~any(Tail(rawMantissa)),
          emin |-> 1,
          emax |-> 2 ^ desc_e(nbits) - expBias,
          intRawExp |-> intRawExp,
          exp |-> IF infinity \/ NaN \/ zero THEN 0 ELSE intRawExp - expBias + 1 ]

\* self.bmantissa, self.mantissaExpr and self.mantissa: set once by __init__
\* from the attributes above and kept here as operators on the instance.
\* mantissa is the float of the exact sum of 2^i over the list mantissaExpr,
\* named by that list ("inf" and "nan" for the two special values).
bmantissa(self) ==
    IF self.infinity \/ self.NaN \/ self.zero THEN self.rawMantissa
    ELSE <<1>> \o self.rawMantissa
mantissaExpr(self) ==
    IF self.infinity THEN "inf" ELSE IF self.NaN THEN "nan"
    ELSE mantissaExprList(bmantissa(self))

\* the split of the packed bits into sign, exponent and mantissa
initBits(float, nbits, base, bitarray) ==
    LET e == desc_e(nbits)
    IN  Bind(SubSeq(bitarray, 2, e + 1), LAMBDA rawExp :
        Bind(SubSeq(bitarray, e + 2, nbits), LAMBDA rawMantissa :
            initFields(float, nbits, base, bitarray, rawExp, rawMantissa,
                       2 ^ (e - 1) - 1,
                       IF bitarray[1] = 1 THEN SIGN_MINUS ELSE SIGN_PLUS,
                       normalFlag(rawExp, rawMantissa))))

\* __init__(self, value, nbits, base) on the instance whose float value is
\* float: the attributes it sets (bitstring, a rendering, is left out).
\* base is 2 by default and True (1) when abs passes its third argument.
init(float, value, nbits, base) ==
    LET n == IF nbits \in Widths THEN nbits ELSE 64
    IN  Bind(frombytes(pack(n, value)), LAMBDA bitarray : initBits(float, n, base, bitarray))

\* float_IEEE754(value, nbits) and float_IEEE754(value, nbits, True): the
\* third argument is forcePositive to __new__ and base to __init__
float_IEEE754(value, nbits, third) ==
    init(new(value, nbits, third), value, nbits, IF third THEN 1 ELSE 2)

\* fromBytes(value, nbits, byteOrder)
fromBytes(value, nbits, byteOrder) ==
    float_IEEE754(unpack(bytesOrders_p(byteOrder), nbits, value), nbits, FALSE)

\* fromBitarray(value, byteOrder)
fromBitarray(value, byteOrder) == fromBytes(tobytes(value), Len(value), byteOrder)

(***************************************************************************)
(* fromString                                                              *)
(***************************************************************************)
\* an exception raised by a call
Raise(exc, msg) == [kind |-> "raise", val |-> exc, msg |-> msg]

\* a numeral is a sequence of digit characters; a Python int, which has no
\* bound, is the sequence of its binary digits from the first 1 (<< >> is 0)
DigitChars == <<"0", "1", "2", "3", "4", "5", "6", "7", "8", "9",
                "a", "b", "c", "d", "e", "f">>
digitValue(c) == (CHOOSE i \in 1..Len(DigitChars) : DigitChars[i] = c) - 1

StripZeros(b) == IF any(b) THEN SubSeq(b, FirstOne(b), Len(b)) ELSE << >>

\* the binary digits of an integer n >= 0 that TLC can hold
RECURSIVE intbits(_)
intbits(n) == IF n = 0 THEN << >> ELSE intbits(n \div 2) \o <<n % 2>>

\* the four binary digits of a hexadecimal digit
nibble(d) == <<d \div 8, (d \div 4) % 2, (d \div 2) % 2, d % 2>>

\* int(value, base) for base 2, 16 and 10: a numeral with a digit that is
\* none of the base (or no digit at all) is refused
validNumeral(value, base) ==
    Len(value) > 0 /\ \A i \in 1..Len(value) : digitValue(value[i]) < base
pyint(value, base) ==
    CASE base = 2 -> StripZeros([i \in 1..Len(value) |-> digitValue(value[i])])
      [] base = 16 ->
            StripZeros([i \in 1..(4 * Len(value)) |->
                           nibble(digitValue(value[((i - 1) \div 4) + 1]))[((i - 1) % 4) + 1]])
      [] base = 10 ->
            LET h[k \in 0..Len(value)] ==
                    IF k = 0 THEN 0 ELSE 10 * h[k - 1] + digitValue(value[k])
            IN  intbits(h[Len(value)])

\* x.to_bytes(xbytes, 'big') of an int of at most 8 * xbytes binary digits
to_bytes(x, xbytes) == tobytes(Zeros(8 * xbytes - Len(x)) \o x)

\* fromString(value, nbits, base) with forcePositive left False: bf is a
\* bytes object, which has no append
fromString(value, nbits, base) ==
    IF ~validNumeral(value, base)
    THEN Raise("ValueError", "invalid literal for int()")
    ELSE LET x == pyint(value, base)
             n == IF nbits < 32 THEN 16 ELSE IF nbits < 63 THEN 32 ELSE 64
             bits_required == 8 * ((Len(x) + 7) \div 8)
             xbytes == bits_required \div 8
             nbytes == n \div 8
             bf == to_bytes(x, xbytes)
         IN  IF Len(bf) < nbytes
             THEN Raise("AttributeError", "'bytes' object has no attribute 'append'")
             ELSE IF Len(bf) > nbytes
             THEN Raise("struct.error", "unpack requires a buffer of nbytes bytes")
             ELSE [kind |-> "value", val |-> "", msg |-> "",
                   obj |-> float_IEEE754(unpack("big", n, bf), n, FALSE)]

(***************************************************************************)
(* as_int_tuple, new_from_int_tuple                                        *)
(***************************************************************************)
\* as_int_tuple(self): tuple() is called with four arguments and takes one
as_int_tuple(self) == Raise("TypeError", "tuple expected at most 1 argument, got 4")

\* int.bit_length()
RECURSIVE bit_length(_)
bit_length(n) == IF n < 0 THEN bit_length(-n) ELSE IF n = 0 THEN 0 ELSE 1 + bit_length(n \div 2)

\* f'{n:0b}': the binary digits, after '-' for a negative n
RECURSIVE binstr(_)
binstr(n) ==
    IF n < 0 THEN <<"-">> \o binstr(-n)
    ELSE IF n < 2 THEN <<IF n = 0 THEN "0" ELSE "1">>
    ELSE binstr(n \div 2) \o <<IF n % 2 = 0 THEN "0" ELSE "1">>

\* str.zfill(width) of a string without sign
zfill(str, width) ==
    IF Len(str) >= width THEN str ELSE [i \in 1..(width - Len(str)) |-> "0"] \o str

\* new_from_int_tuple whose two length tests read >= where the code reads >
new_from_int_tuple_strict(ftuple, byteOrder) ==
    LET nbits == ftuple[1]
        s == binstr(ftuple[2])
    IN  IF Len(s) # 1 THEN Raise("ValueError", "Incorrect length for sign")
        ELSE IF nbits \notin Widths THEN Raise("KeyError", "")
        ELSE IF bit_length(ftuple[3]) >= desc_e(nbits)
        THEN Raise("OverflowError", "Value too large for exponent")
        ELSE IF bit_length(ftuple[4]) >= nbits - 1 - desc_e(nbits)
        THEN Raise("OverflowError", "Value too large for mantissa")
        ELSE Raise("NameError", "name 'fromString' is not defined")

\* new_from_int_tuple(ftuple, byteOrder): the name fromString it returns
\* through is an attribute of the class and no global of the module
new_from_int_tuple(ftuple, byteOrder) ==
    LET nbits == ftuple[1]
        s == binstr(ftuple[2])
    IN  IF Len(s) # 1 THEN Raise("ValueError", "Incorrect length for sign")
        ELSE IF nbits \notin Widths THEN Raise("KeyError", "")
        ELSE LET nbits_e == desc_e(nbits)
                 nbits_m == nbits - 1 - nbits_e
             IN  IF bit_length(ftuple[3]) > nbits_e
                 THEN Raise("OverflowError", "Value too large for exponent")
                 ELSE IF bit_length(ftuple[4]) > nbits_m
                 THEN Raise("OverflowError", "Value too large for mantissa")
                 ELSE Raise("NameError", "name 'fromString' is not defined")

(***************************************************************************)
(* newFromBitSet, newFromBitReverse, abs                                   *)
(***************************************************************************)
\* bitSetCopy without the deepcopy: t is the instance's own bitarray
bitSetAlias(self, index, value) ==
    LET t == [self.bitarray EXCEPT ![index + 1] = value]
    IN  [self |-> [self EXCEPT !.bitarray = t], t |-> t]

\* t = copy.deepcopy(self.__bitarray); t[index] = value: the instance after
\* the two statements, and t
bitSetCopy(self, index, value) ==
    [self |-> self, t |-> [self.bitarray EXCEPT ![index + 1] = value]]

\* newFromBitSet(self, index, value, byteOrder): whether self is returned,
\* the instance afterwards, and the instance returned
newFromBitSet(self, index, value, byteOrder) ==
    IF self.bitarray[index + 1] = value
    THEN [same |-> TRUE, self |-> self, obj |-> self]
    ELSE LET c == bitSetCopy(self, index, value)
         IN  [same |-> FALSE, self |-> c.self, obj |-> fromBitarray(c.t, byteOrder)]

\* newFromBitReverse(self, bit)
newFromBitReverse(self, bit) ==
    LET v == IF self.bitarray[bit + 1] = 0 THEN 1 ELSE 0
    IN  newFromBitSet(self, bit, v, DefaultByteOrder)

\* abs(value): float_IEEE754(value, value.nbits, True), value being the
\* instance, whose float value __init__ packs
abs(value) == float_IEEE754(value.float, value.nbits, TRUE)

(***************************************************************************)
(* totalOrder                                                              *)
(***************************************************************************)
PyBool(b) == IF b THEN "True" ELSE "False"

\* totalOrderFinite with the two comparisons exchanged
totalOrderFiniteSwapped(x, y) ==
    IF FloatGt(x.float, y.float) THEN "True"
    ELSE IF FloatLt(x.float, y.float) THEN "False"
    ELSE PyBool(x.exp <= y.exp)

\* the branch of totalOrder for two finite nonzero operands
totalOrderFinite(x, y) ==
    IF FloatLt(x.float, y.float) THEN "True"
    ELSE IF FloatGt(x.float, y.float) THEN "False"
    ELSE IF FloatEq(x.float, y.float)
    THEN IF y.negativeZero /\ x.positiveZero THEN "True"
         ELSE IF x.positiveZero /\ y.negativeZero THEN "False"
         ELSE IF x.sign = SIGN_MINUS /\ y.sign = SIGN_MINUS THEN PyBool(x.exp >= y.exp)
         ELSE PyBool(x.exp <= y.exp)
    ELSE "fall"

\* totalOrderZero with the signs of its test exchanged
totalOrderZeroSwapped(x, y) == IF x.negativeZero /\ y.positiveZero THEN "False" ELSE "True"

\* the branch of totalOrder for two finite operands, one of them a zero
totalOrderZero(x, y) == IF x.positiveZero /\ y.negativeZero THEN "False" ELSE "True"

\* totalOrderNaN whose first test forgets that y must not be a NaN
totalOrderNaNLoose(x, y) ==
    IF x.sign = SIGN_MINUS THEN "True"
    ELSE IF y.sign = SIGN_PLUS /\ ~x.NaN THEN "True"
    ELSE "False"

\* the branch of totalOrder for a NaN operand
totalOrderNaN(x, y) ==
    IF x.sign = SIGN_MINUS /\ ~y.NaN THEN "True"
    ELSE IF y.sign = SIGN_PLUS /\ ~x.NaN THEN "True"
    ELSE IF x.sign = SIGN_MINUS /\ y.sign = SIGN_PLUS THEN "True"
    ELSE IF x.sign = SIGN_PLUS /\ y.sign = SIGN_MINUS THEN "False"
    ELSE "False"

\* totalOrder(x, y): "True", "False", or "None" where no return is reached
totalOrder(x, y) ==
    LET first == IF x.finite /\ y.finite
                 THEN IF ~x.zero /\ ~y.zero THEN totalOrderFinite(x, y)
                      ELSE totalOrderZero(x, y)
                 ELSE "fall"
    IN  IF first # "fall" THEN first
        ELSE IF x.NaN \/ y.NaN THEN totalOrderNaN(x, y)
        ELSE "None"

\* totalOrderMag(x, y): totalOrder and self are attributes of the class and
\* of no scope the body can see, and the name totalOrder is looked up first
totalOrderMag(x, y) == Raise("NameError", "name 'totalOrder' is not defined")

(***************************************************************************)
(* Inputs of the calls                                                     *)
(***************************************************************************)
\* the n-bit field hi mid ... mid lo
Fill(n, hi, mid, lo) == [i \in 1..n |-> IF i = 1 THEN hi ELSE IF i = n THEN lo ELSE mid]

\* exponent fields 0...00, 0...01, 1...10, 1...11 and fraction fields
\* 0...00, 0...01, 10...00: both zeros, the least and greatest
\* subnormals and normals, both infinities, signaling and quiet NaNs
ExpInputs(e) == {Fill(e, a, a, b) : a \in 0..1, b \in 0..1}
ManInputs(m) == {Fill(m, a, 0, b) : a \in 0..1, b \in 0..1} \ {Fill(m, 1, 0, 1)}
PatternInputs(nbits) ==
    {<<s>> \o ex \o mn : s \in 0..1, ex \in ExpInputs(desc_e(nbits)),
                         mn \in ManInputs(nbits - 1 - desc_e(nbits))}

\* the patterns the instances of Spec start from: 1.0, the least negative
\* subnormal and the positive signaling NaN of payload 1
RootInputs(nbits) ==
    LET e == desc_e(nbits)
        m == nbits - 1 - e
    IN  { <<0>> \o Fill(e, 0, 1, 1) \o Zeros(m),
          <<1>> \o Zeros(e) \o Fill(m, 0, 0, 1),
          <<0>> \o Ones(e) \o Fill(m, 0, 0, 1) }

\* bit indexes: the sign and the last fraction bit
BitIndexInputs(nbits) == {0, nbits - 1}

\* (numberOfBits, sign, uintRawExponent, uintRawMantissa): fields in range
\* (the greatest among them), a sign of two digits, an exponent and a mantissa
\* one bit too long, and tuples with two and three fields out of range
TupleInputs ==
    {<<w, 1, 2 ^ desc_e(w) - 1, 1>> : w \in Widths}
    \cup {<<16, 0, 0, 0>>, <<16, 1, 31, 1023>>,
          <<16, 2, 0, 0>>, <<32, -1, 0, 0>>, <<32, 0, 256, 0>>, <<16, 0, 0, 1024>>,
          <<16, 0, 32, 1024>>, <<16, 2, 32, 1024>>}

\* the numeral in base 2 of a bit pattern
BinNumeral(bits) == [i \in 1..Len(bits) |-> IF bits[i] = 1 THEN "1" ELSE "0"]

\* (numeral, base): in base 2 the patterns of RootInputs digit by digit (1.0
\* has leading zeros, the negative subnormal fills all its bytes), 0, 1, eight
\* ones and a digit 2; in base 16 the half-precision 1.0 (3c00), its first
\* byte alone, the half-precision signaling NaN 7c01, the single-precision
\* 1.0 and the double-precision 1.0; in base 10 the numbers 1, 255,
\* 15360 = 0x3c00 and 1065353216 = 0x3f800000
NumeralInputs ==
    {<<BinNumeral(bits), 2>> : bits \in UNION {RootInputs(nbits) : nbits \in Widths}}
    \cup {<<<<"0">>, 2>>, <<<<"1">>, 2>>, <<BinNumeral(Ones(8)), 2>>, <<<<"2">>, 2>>}
    \cup {<<<<"3", "c", "0", "0">>, 16>>, <<<<"3", "c">>, 16>>, <<<<"7", "c", "0", "1">>, 16>>,
          <<<<"3", "f", "8", "0", "0", "0", "0", "0">>, 16>>,
          <<<<"3", "f", "f", "0">> \o [i \in 1..12 |-> "0"], 16>>}
    \cup {<<<<"1">>, 10>>, <<<<"2", "5", "5">>, 10>>, <<<<"1", "5", "3", "6", "0">>, 10>>,
          <<<<"1", "0", "6", "5", "3", "5", "3", "2", "1", "6">>, 10>>}

\* nbits arguments: the three widths and two that are snapped to a width
NbitsInputs == {8, 16, 32, 48, 64}

(***************************************************************************)
(* State                                                                   *)
(***************************************************************************)
NoRet == [op |-> "", kind |-> "none", ref |-> 0, val |-> "", msg |-> "",
          x |-> 0, y |-> 0, index |-> 0, value |-> 0, ftuple |-> << >>,
          args |-> << >>]

Created(op, src, index, value, byteOrder) ==
    [op |-> op, src |-> src, index |-> index, value |-> value, byteOrder |-> byteOrder]

Roots == Cardinality({k \in 1..Len(origin) : origin[k].src = 0})

Platform ==
    /\ byteorder \in {"little", "big"}
    /\ nanmode \in {"quiet", "keep"}

Init ==
    /\ Platform
    /\ objs = << >>
    /\ origin = << >>
    /\ ret = NoRet

\* a new instance enters the heap: op is the call that returns it and how the
\* constructor call that made it (newFromBitReverse goes through newFromBitSet)
Enter(heap, obj, op, how) ==
    /\ Len(objs) < MaxObjs
    /\ objs' = Append(heap, obj)
    /\ origin' = Append(origin, how)
    /\ ret' = [NoRet EXCEPT !.op = op, !.kind = "value", !.ref = Len(objs) + 1,
                            !.x = how.src, !.index = how.index, !.value = how.value]

(***************************************************************************)
(* The calls                                                               *)
(***************************************************************************)
\* float_IEEE754.fromBytes(value, nbits, byteOrder), value the nbits/8 bytes
FromBytes(value, nbits, byteOrder) ==
    /\ Roots < MaxRoots
    /\ Enter(objs, fromBytes(value, nbits, byteOrder), "fromBytes",
             Created("fromBytes", 0, 0, 0, ""))
    /\ UNCHANGED <<byteorder, nanmode>>

\* objs[i].newFromBitSet(index, value, byteOrder)
NewFromBitSet(i, index, value, byteOrder) ==
    LET r == newFromBitSet(objs[i], index, value, byteOrder)
        heap == [objs EXCEPT ![i] = r.self]
    IN  /\ IF r.same
           THEN /\ objs' = heap
                /\ ret' = [NoRet EXCEPT !.op = "newFromBitSet", !.kind = "value", !.ref = i,
                                        !.x = i, !.index = index, !.value = value]
                /\ UNCHANGED origin
           ELSE Enter(heap, r.obj, "newFromBitSet",
                      Created("newFromBitSet", i, index, value, byteOrder))
        /\ UNCHANGED <<byteorder, nanmode>>

\* objs[i].newFromBitReverse(bit)
NewFromBitReverse(i, bit) ==
    LET r == newFromBitReverse(objs[i], bit)
    IN  /\ Enter([objs EXCEPT ![i] = r.self], r.obj, "newFromBitReverse",
                 Created("newFromBitSet", i, bit, 1 - objs[i].bitarray[bit + 1],
                         DefaultByteOrder))
        /\ UNCHANGED <<byteorder, nanmode>>

\* float_IEEE754.abs(objs[i])
Abs(i) ==
    /\ Enter(objs, abs(objs[i]), "abs", Created("abs", i, 0, 0, ""))
    /\ UNCHANGED <<byteorder, nanmode>>

\* float_IEEE754.totalOrder(objs[i], objs[j])
TotalOrder(i, j) ==
    /\ ret' = [NoRet EXCEPT !.op = "totalOrder", !.kind = "bool", !.x = i, !.y = j,
                            !.val = totalOrder(objs[i], objs[j])]
    /\ UNCHANGED <<byteorder, nanmode, objs, origin>>

\* float_IEEE754.totalOrderMag(objs[i], objs[j])
TotalOrderMag(i, j) ==
    LET r == totalOrderMag(objs[i], objs[j])
    IN  /\ ret' = [NoRet EXCEPT !.op = "totalOrderMag", !.kind = r.kind, !.val = r.val,
                                !.msg = r.msg, !.x = i, !.y = j]
        /\ UNCHANGED <<byteorder, nanmode, objs, origin>>

\* objs[i].as_int_tuple()
AsIntTuple(i) ==
    LET r == as_int_tuple(objs[i])
    IN  /\ ret' = [NoRet EXCEPT !.op = "as_int_tuple", !.kind = r.kind, !.val = r.val,
                                !.msg = r.msg, !.x = i]
        /\ UNCHANGED <<byteorder, nanmode, objs, origin>>

\* float_IEEE754.new_from_int_tuple(ftuple)
NewFromIntTuple(ftuple) ==
    LET r == new_from_int_tuple(ftuple, DefaultByteOrder)
    IN  /\ ret' = [NoRet EXCEPT !.op = "new_from_int_tuple", !.kind = r.kind, !.val = r.val,
                                !.msg = r.msg, !.ftuple = ftuple]
        /\ UNCHANGED <<byteorder, nanmode, objs, origin>>

Next ==
    \/ \E nbits \in Widths : \E bits \in RootInputs(nbits) : \E bo \in ByteOrders :
          FromBytes(tobytes(bits), nbits, bo)
    \/ \E i \in 1..Len(objs) : \E index \in BitIndexInputs(objs[i].nbits) : \E value \in 0..1 :
          NewFromBitSet(i, index, value, DefaultByteOrder)
    \/ \E i \in 1..Len(objs) : \E bit \in BitIndexInputs(objs[i].nbits) : NewFromBitReverse(i, bit)
    \/ \E i \in 1..Len(objs) : Abs(i)
    \/ \E i \in 1..Len(objs) : \E j \in 1..Len(objs) : TotalOrder(i, j)
    \/ \E i \in 1..Len(objs) : \E j \in 1..Len(objs) : TotalOrderMag(i, j)
    \/ \E i \in 1..Len(objs) : AsIntTuple(i)
    \/ \E ftuple \in TupleInputs : NewFromIntTuple(ftuple)

Spec == Init /\ [][Next]_vars

(***************************************************************************)
(* totalOrder on two instances of any patterns: the instances are          *)
(* constructed, then compared                                              *)
(***************************************************************************)
Constructed(bits, nbits) == float_IEEE754([w |-> nbits, bits |-> bits], nbits, FALSE)

ConstructedInputs ==
    UNION {{Constructed(bits, nbits) : bits \in PatternInputs(nbits)} : nbits \in Widths}

InitOrder ==
    /\ Platform
    /\ \E x \in ConstructedInputs, y \in ConstructedInputs : objs = <<x, y>>
    /\ origin = <<Created("float_IEEE754", 0, 0, 0, ""), Created("float_IEEE754", 0, 0, 0, "")>>
    /\ ret = NoRet

NextOrder == \E i \in 1..Len(objs) : \E j \in 1..Len(objs) : TotalOrder(i, j)

SpecOrder == InitOrder /\ [][NextOrder]_vars

(***************************************************************************)
(* fromString on numerals of the three bases                               *)
(***************************************************************************)
\* float_IEEE754.fromString(value, nbits, base)
FromString(value, nbits, base) ==
    LET r == fromString(value, nbits, base)
        called == [NoRet EXCEPT !.op = "fromString", !.kind = r.kind, !.val = r.val,
                                !.msg = r.msg, !.args = <<value, nbits, base>>]
    IN  /\ IF r.kind = "value"
           THEN /\ Roots < MaxRoots
                /\ objs' = Append(objs, r.obj)
                /\ origin' = Append(origin, Created("fromString", 0, 0, 0, ""))
                /\ ret' = [called EXCEPT !.ref = Len(objs) + 1]
           ELSE /\ ret' = called
                /\ UNCHANGED <<objs, origin>>
        /\ UNCHANGED <<byteorder, nanmode>>

NextString ==
    \E numeral \in NumeralInputs : \E nbits \in NbitsInputs :
        FromString(numeral[1], nbits, numeral[2])

SpecString == Init /\ [][NextString]_vars

(***************************************************************************)
(* Properties                                                              *)
(***************************************************************************)
Categories == {"zero", "subnormal", "normal", "infinity", "NaN"}

\* the bit fields of an instance say: a zero, an infinity, a NaN, finite
ZeroBits(o) == ~any(o.rawExp) /\ ~any(o.rawMantissa)
InfBits(o) == all(o.rawExp) /\ ~any(o.rawMantissa)
NaNBits(o) == all(o.rawExp) /\ any(o.rawMantissa)
FiniteBits(o) == ~all(o.rawExp)

\* the last call was totalOrder(x, y) on two instances of one width
Compared == ret.op = "totalOrder" /\ objs[ret.x].nbits = objs[ret.y].nbits
X == objs[ret.x]
Y == objs[ret.y]
\* what totalOrder(y, x) returns, the last call being totalOrder(x, y)
Reversed == totalOrder(objs[ret.y], objs[ret.x])

\* C1: every instance has exactly one of the five category flags zero,
\* subnormal, normal, infinity, NaN set.
C1_ExactlyOneCategory ==
    \A i \in 1..Len(objs) : Cardinality({c \in Categories : objs[i][c]}) = 1

\* C2: new_from_int_tuple of a tuple whose fields are in range returns an
\* instance, and as_int_tuple of that instance returns the tuple.
C2_TupleRoundTrip ==
    (/\ ret.op = "new_from_int_tuple"
     /\ ret.ftuple[1] \in Widths
     /\ ret.ftuple[2] \in 0..1
     /\ ret.ftuple[3] \in 0..(2 ^ desc_e(ret.ftuple[1]) - 1)
     /\ ret.ftuple[4] \in 0..(2 ^ (ret.ftuple[1] - 1 - desc_e(ret.ftuple[1])) - 1))
    => /\ ret.kind = "value"
       /\ as_int_tuple(objs[ret.ref]).kind = "value"
       /\ as_int_tuple(objs[ret.ref]).val = ret.ftuple

\* C3: for two instances of one width whose bit patterns differ, exactly one
\* of totalOrder(x, y) and totalOrder(y, x) is true.
C3_StrictTotalOrder ==
    (Compared /\ X.bitarray # Y.bitarray)
    => ((ret.val = "True") # (Reversed = "True"))

\* C4: for finite nonzero x and y of one width with x < y as numbers,
\* totalOrder(x, y) is true and totalOrder(y, x) is false.
C4_OrderFollowsValue ==
    (/\ Compared
     /\ FiniteBits(X) /\ ~ZeroBits(X)
     /\ FiniteBits(Y) /\ ~ZeroBits(Y)
     /\ FloatLt(X.float, Y.float))
    => (ret.val = "True" /\ Reversed = "False")

\* C4 happens: a negative subnormal was compared with a positive normal number
C4_Witness ==
    /\ Compared
    /\ X.rawSign = 1 /\ ~any(X.rawExp) /\ any(X.rawMantissa)
    /\ Y.rawSign = 0 /\ any(Y.rawExp) /\ FiniteBits(Y)
    /\ FloatLt(X.float, Y.float)
    /\ ret.val = "True"

\* C5: the two zeros of a width have the zero flag set and differ only in the
\* sign; totalOrder(-0, +0) is true, totalOrder(+0, -0) is false, and
\* totalOrder of two zeros of the same sign is true.
C5_SignedZeros ==
    (Compared /\ ZeroBits(X) /\ ZeroBits(Y))
    => /\ X.zero /\ Y.zero
       /\ Tail(X.bitarray) = Tail(Y.bitarray)
       /\ (X.rawSign = 1 /\ Y.rawSign = 0) => (ret.val = "True" /\ Reversed = "False")
       /\ (X.rawSign = 0 /\ Y.rawSign = 1) => (ret.val = "False" /\ Reversed = "True")
       /\ (X.rawSign = Y.rawSign) => ret.val = "True"

\* C5 happens: -0 was compared with +0
C5_Witness ==
    /\ Compared
    /\ ZeroBits(X) /\ X.rawSign = 1
    /\ ZeroBits(Y) /\ Y.rawSign = 0
    /\ ret.val = "True"

\* C6: of an infinite and a finite operand of one width: totalOrder(-Inf, x)
\* is true and totalOrder(x, -Inf) false for every finite negative x;
\* totalOrder(y, +Inf) is true and totalOrder(+Inf, y) false for every finite
\* positive y.
C6_InfiniteAndFinite ==
    /\ (Compared /\ InfBits(X) /\ X.rawSign = 1 /\ FiniteBits(Y) /\ Y.rawSign = 1)
       => (ret.val = "True" /\ Reversed = "False")
    /\ (Compared /\ InfBits(Y) /\ Y.rawSign = 0 /\ FiniteBits(X) /\ X.rawSign = 0)
       => (ret.val = "True" /\ Reversed = "False")

\* C7: if x is a NaN of negative sign and y is no NaN or has a positive sign,
\* or y is a NaN of positive sign and x is no NaN or has a negative sign, then
\* totalOrder(x, y) is true and totalOrder(y, x) is false.
C7_NaNOrder ==
    (/\ Compared
     /\ \/ NaNBits(X) /\ X.rawSign = 1 /\ (~NaNBits(Y) \/ Y.rawSign = 0)
        \/ NaNBits(Y) /\ Y.rawSign = 0 /\ (~NaNBits(X) \/ X.rawSign = 1))
    => (ret.val = "True" /\ Reversed = "False")

\* C7 happens: a negative NaN was compared with a negative number
C7_Witness ==
    /\ Compared
    /\ NaNBits(X) /\ X.rawSign = 1
    /\ ~NaNBits(Y) /\ Y.rawSign = 1
    /\ ret.val = "True"

\* C8: newFromBitSet(x, i, v) with the default byte order returns x itself
\* when bit i of x is v, and else an instance of the width of x whose bit i
\* is v and whose other bits are those of x.
C8_BitSet ==
    (ret.op = "newFromBitSet")
    => IF objs[ret.x].bitarray[ret.index + 1] = ret.value
       THEN ret.ref = ret.x
       ELSE /\ objs[ret.ref].nbits = objs[ret.x].nbits
            /\ objs[ret.ref].bitarray = [objs[ret.x].bitarray EXCEPT ![ret.index + 1] = ret.value]

\* the instance ret.x was itself made by flipping bit ret.index of another
\* instance (newFromBitReverse is newFromBitSet of the opposite bit with the
\* default byte order)
FlippedTwice ==
    /\ ret.op = "newFromBitReverse"
    /\ origin[ret.x].op = "newFromBitSet"
    /\ origin[ret.x].index = ret.index
    /\ origin[ret.x].byteOrder = DefaultByteOrder

\* C9: flipping bit i of x and then bit i of the result gives an instance of
\* the width, sign, exponent and mantissa bits of x.
C9_FlipTwice ==
    FlippedTwice
    => LET x == objs[origin[ret.x].src]
           r == objs[ret.ref]
       IN  /\ r.nbits = x.nbits
           /\ r.rawSign = x.rawSign
           /\ r.rawExp = x.rawExp
           /\ r.rawMantissa = x.rawMantissa

\* C10: no call changes an instance that exists (so each keeps the width, the
\* bit fields and the flags its construction gave it), and an instance
\* returned with bits other than those of the receiver is another instance.
C10_Immutable ==
    [][ /\ \A i \in 1..Len(objs) : objs'[i] = objs[i]
        /\ (ret'.kind = "value" /\ ret'.x # 0
            /\ objs'[ret'.ref].bitarray # objs[ret'.x].bitarray) => ret'.ref # ret'.x ]_vars

\* C10 happens: the first instance has been the receiver of a bit call and of
\* abs, which returned two more instances, and then an operand of totalOrder
C10_Witness ==
    /\ Len(objs) = 3
    /\ origin[2].op = "newFromBitSet" /\ origin[2].src = 1
    /\ origin[3].op = "abs" /\ origin[3].src = 1
    /\ objs[2].bitarray # objs[1].bitarray
    /\ ret.op = "totalOrder" /\ ret.x = 1

\* the fields of the tuple of the last call, a new_from_int_tuple of a width
\* the class has: the sign is one binary digit, the exponent and the mantissa
\* are no longer than their fields
TupleCalled == ret.op = "new_from_int_tuple" /\ ret.ftuple[1] \in Widths
SignFits == ret.ftuple[2] \in 0..1
ExpFits == bit_length(ret.ftuple[3]) <= desc_e(ret.ftuple[1])
ManFits == bit_length(ret.ftuple[4]) <= ret.ftuple[1] - 1 - desc_e(ret.ftuple[1])
Raised(exc, msg) == ret.kind = "raise" /\ ret.val = exc /\ ret.msg = msg

\* C11: new_from_int_tuple returns no value and raises, for the first field
\* out of range in the order sign, exponent, mantissa: ValueError for a sign
\* that is not one binary digit, OverflowError naming the exponent for an
\* exponent longer than e bits, OverflowError naming the mantissa for a
\* mantissa longer than m bits; a tuple whose fields are all in range raises
\* neither ValueError nor OverflowError.
C11_TupleErrors ==
    /\ (ret.op = "new_from_int_tuple" /\ ~SignFits)
       => Raised("ValueError", "Incorrect length for sign")
    /\ (TupleCalled /\ SignFits /\ ~ExpFits)
       => Raised("OverflowError", "Value too large for exponent")
    /\ (TupleCalled /\ SignFits /\ ExpFits /\ ~ManFits)
       => Raised("OverflowError", "Value too large for mantissa")
    /\ (TupleCalled /\ SignFits /\ ExpFits /\ ManFits)
       => ret.val \notin {"ValueError", "OverflowError"}

\* C11 happens: a tuple whose mantissa alone is one bit too long was refused
C11_Witness ==
    /\ TupleCalled /\ SignFits /\ ExpFits /\ ~ManFits
    /\ Raised("OverflowError", "Value too large for mantissa")

\* C12: totalOrder(x, y) on instances of different widths raises an error and
\* returns no ordering result.
C12_MixedWidths ==
    (ret.op = "totalOrder" /\ objs[ret.x].nbits # objs[ret.y].nbits)
    => (ret.kind = "raise" /\ ret.val \notin {"True", "False", "None"})

\* C13: an instance whose exponent bits are all ones is classified infinite
\* and not NaN when its mantissa bits are all zero, whatever its sign, and NaN
\* and not infinite when they are not: signaling exactly when the first
\* mantissa bit is 0, quiet exactly when it is 1; an instance classified
\* infinite or NaN is not classified finite.
C13_InfinityAndNaN ==
    \A i \in 1..Len(objs) :
        LET o == objs[i]
        IN  /\ InfBits(o) => (o.infinity /\ ~o.NaN)
            /\ NaNBits(o) => /\ o.NaN /\ ~o.infinity
                             /\ o.signalingNaN <=> o.rawMantissa[1] = 0
                             /\ o.quietNaN <=> o.rawMantissa[1] = 1
            /\ (o.infinity \/ o.NaN) => ~o.finite

\* C13 happens: a negative infinity and a NaN whose first mantissa bit is 1
\* have been constructed and classified
C13_Witness ==
    /\ InfBits(objs[1]) /\ objs[1].rawSign = 1 /\ objs[1].negativeInfinity
    /\ NaNBits(objs[2]) /\ objs[2].rawMantissa[1] = 1 /\ objs[2].quietNaN

\* the width fromString snaps its nbits argument to
SnappedWidth(nbits) == IF nbits < 32 THEN 16 ELSE IF nbits < 63 THEN 32 ELSE 64

\* the last call was fromString of a valid numeral whose integer fits in the
\* snapped width
StringCalled ==
    /\ ret.op = "fromString"
    /\ validNumeral(ret.args[1], ret.args[3])
    /\ Len(pyint(ret.args[1], ret.args[3])) <= SnappedWidth(ret.args[2])

\* the least big-endian bytes of the integer, then zero bytes up to the width
PaddedPattern(x, width) ==
    LET least == Zeros(8 * ((Len(x) + 7) \div 8) - Len(x)) \o x
    IN  least \o Zeros(width - Len(least))

\* C14: fromString of a valid numeral in base 2, 10 or 16 whose integer fits
\* in the snapped width returns an instance of that width whose bits are the
\* least big-endian bytes of the integer followed by zero bytes; a numeral
\* whose integer needs fewer bytes than the width is accepted too.
C14_FromStringPads ==
    StringCalled
    => /\ ret.kind = "value"
       /\ objs[ret.ref].nbits = SnappedWidth(ret.args[2])
       /\ objs[ret.ref].bitarray =
              PaddedPattern(pyint(ret.args[1], ret.args[3]), SnappedWidth(ret.args[2]))

\* C15: abs(x) returns an instance of the width of x whose sign bit is 0
\* (sign plus) and whose exponent and mantissa bits are those of x, whatever
\* x is; totalOrderMag(x, y) returns what totalOrder(abs(x), abs(y)) returns.
C15_AbsAndMag ==
    /\ (ret.op = "abs")
       => /\ objs[ret.ref].nbits = objs[ret.x].nbits
          /\ objs[ret.ref].rawSign = 0
          /\ objs[ret.ref].sign = SIGN_PLUS
          /\ objs[ret.ref].rawExp = objs[ret.x].rawExp
          /\ objs[ret.ref].rawMantissa = objs[ret.x].rawMantissa
    /\ (ret.op = "totalOrderMag")
       => /\ ret.kind = "bool"
          /\ ret.val = totalOrder(abs(X), abs(Y))

\* the float value of an instance has the magnitude mantissa * 2^exp, the
\* mantissa being the sum of 2^(-k) over the set positions k of bmantissa:
\* both are zero, or both are 1.f * 2^q with the same q and the same f
MagnitudeIsMantissaTimesExp(o) ==
    LET bm == bmantissa(o)
    IN  IF ~any(bm) THEN fiszero(o.float)
        ELSE LET f == SubSeq(bm, FirstOne(bm) + 1, Len(bm))
             IN  /\ ~fiszero(o.float)
                 /\ fq(o.float) = o.exp - FirstOne(bm)
                 /\ ~FracLt(ffrac(o.float), f)
                 /\ ~FracLt(f, ffrac(o.float))

\* C16: for every finite instance the mantissa bit sequence is the stored
\* mantissa after a leading 1 for a normal number and the stored mantissa
\* alone for a subnormal one (and a zero), the mantissa is the sum of 2^(-k)
\* over its set positions k, exp is 0 for a zero and the stored exponent
\* minus the bias 2^(e-1) - 1 plus 1 otherwise, and the magnitude of the
\* value is mantissa * 2^exp.
C16_DerivedFields ==
    \A i \in 1..Len(objs) :
        LET o == objs[i]
        IN  FiniteBits(o)
            => /\ bmantissa(o) = IF any(o.rawExp) THEN <<1>> \o o.rawMantissa
                                 ELSE o.rawMantissa
               /\ mantissaExpr(o) = mantissaExprList(bmantissa(o))
               /\ o.expBias = 2 ^ (desc_e(o.nbits) - 1) - 1
               /\ o.exp = IF ZeroBits(o) THEN 0 ELSE ba2int(o.rawExp) - o.expBias + 1
               /\ MagnitudeIsMantissaTimesExp(o)

====
